---- MODULE Spec2Model ----
(***************************************************************************)
(* Model of shinier.graph: classification of filesystem paths into nodes   *)
(* (node_from_path, node_from_module_path), child enumeration               *)
(* (child_nodes_from_node) and the breadth-first graph construction         *)
(* (graph_from_path) over a filesystem with directories, regular files,     *)
(* special files and symbolic links.                                        *)
(*                                                                          *)
(* File names are sequences of one-character strings, a path is a record    *)
(* [abs, parts] as pathlib keeps it (anchor and components), and the         *)
(* filesystem is a function from canonical absolute component sequences to   *)
(* directory entries.                                                        *)
(***************************************************************************)
EXTENDS Integers, Sequences, FiniteSets, TLC

\* fs           the filesystem, unchanged while the graph is built
\* root         the path graph_from_path is called with
\* pc           where graph_from_path is: "start" before the call, "loop" at
\*              the test of the while loop, "children" inside the for loop,
\*              "climbing" in a while loop of node_from_module_path that has
\*              no exit, "failed" after an exception, "done" after return
\* graph        the Graph under construction: nodes and edges
\* index        the cursor of the breadth-first traversal
\* children     the children of nodes[index] not yet processed
\* error        the name of the exception that left graph_from_path
\* failed_path  the path the exception carries, or the path whose
\*              classification does not return
\* result       the returned graph, if any
\* tick         the parity of the number of steps taken
\* first        empty during the first call of graph_from_path; during a
\*              second call, the root and the result of the first
\* listed       what iterdir() returned in the first of two calls, by the
\*              index of the node whose directory was listed
\* calls        how often the caller calls graph_from_path: once or twice
VARIABLES fs, root, pc, graph, index, children, error, failed_path, result, tick,
          first, listed, calls

graph_vars == <<fs, root, pc, graph, index, children, error, failed_path, result,
                tick, first, listed, calls>>

\* The state of one call of parse_arguments:
\* input_arguments  the raw arguments, each the sequence of its characters
\* parsers          the parsers, by name, in the order they are tried
\* arguments        the arguments yielded so far
\* argument_index   the position of "for input_argument in input_arguments"
\* parser_index     the position of "for parser in parsers"
VARIABLES input_arguments, parsers, arguments, argument_index, parser_index

args_vars == <<input_arguments, parsers, arguments, argument_index, parser_index>>

vars == <<graph_vars, args_vars>>

(***************************************************************************)
(* Bounds of the model                                                      *)
(***************************************************************************)
\* number of symbolic links the kernel follows in one lookup before ELOOP
MaxSymlinks == 4

(***************************************************************************)
(* File names                                                               *)
(***************************************************************************)
dir_0 == <<"d", "i", "r", "_", "0">>
dir_1 == <<"d", "i", "r", "_", "1">>
file_0_py == <<"f", "i", "l", "e", "_", "0", ".", "p", "y">>
file_1_txt == <<"f", "i", "l", "e", "_", "1", ".", "t", "x", "t">>
link_0 == <<"l", "i", "n", "k", "_", "0">>
missing == <<"m", "i", "s", "s", "i", "n", "g">>
InitPy == <<"_", "_", "i", "n", "i", "t", "_", "_", ".", "p", "y">>
DotPy == <<".", "p", "y">>
EmptyStr == <<>>

Last(s) == s[Len(s)]
Front(s) == SubSeq(s, 1, Len(s) - 1)

\* str.rfind("."): the 1-based position of the last dot, 0 when there is none
RECURSIVE RFindDot(_, _)
RFindDot(name, i) ==
    IF i = 0 THEN 0
    ELSE IF name[i] = "." THEN i
    ELSE RFindDot(name, i - 1)

(***************************************************************************)
(* Paths (pathlib.PurePath)                                                 *)
(***************************************************************************)
AbsPath(parts) == [abs |-> TRUE, parts |-> parts]
RelPath(parts) == [abs |-> FALSE, parts |-> parts]

\* path / name
Join(path, name) == [abs |-> path.abs, parts |-> Append(path.parts, name)]

\* path.name: the final component, empty for "/" and "."
PathName(path) == IF path.parts = <<>> THEN EmptyStr ELSE Last(path.parts)

\* path.parent: "/" and "." are their own parents
PathParent(path) ==
    IF path.parts = <<>> THEN path
    ELSE [abs |-> path.abs, parts |-> Front(path.parts)]

\* path.suffix: from the last dot, unless the dot starts or ends the name
PathSuffix(path) ==
    LET name == PathName(path)
        i == RFindDot(name, Len(name))
    IN IF 1 < i /\ i < Len(name) THEN SubSeq(name, i, Len(name)) ELSE EmptyStr

\* path.stem: the name without its suffix
PathStem(path) ==
    LET name == PathName(path)
        i == RFindDot(name, Len(name))
    IN IF 1 < i /\ i < Len(name) THEN SubSeq(name, 1, i - 1) ELSE name

(***************************************************************************)
(* The filesystem (the calls of pathlib.Path that reach the kernel)         *)
(***************************************************************************)
\* the working directory relative paths are looked up from
cwd == <<dir_0, dir_1>>

Dir == [kind |-> "dir"]
File == [kind |-> "file"]
Other == [kind |-> "other"]
Link(target) == [kind |-> "link", target |-> target]

\* Path lookup from the canonical directory cur: the canonical location of
\* the entry named by the components todo; a symbolic link in a non-final
\* component is always followed, one in the final component when follow.
RECURSIVE Walk(_, _, _, _)
Walk(todo, cur, fuel, follow) ==
    IF todo = <<>> THEN [ok |-> TRUE, at |-> cur]
    ELSE IF fs[cur].kind # "dir" THEN [ok |-> FALSE, err |-> "ENOTDIR"]
    ELSE LET nxt == Append(cur, Head(todo)) IN
         IF nxt \notin DOMAIN fs THEN [ok |-> FALSE, err |-> "ENOENT"]
         ELSE IF fs[nxt].kind = "link" /\ (Len(todo) > 1 \/ follow)
              THEN IF fuel = 0 THEN [ok |-> FALSE, err |-> "ELOOP"]
                   ELSE Walk(fs[nxt].target \o Tail(todo), <<>>, fuel - 1, follow)
              ELSE Walk(Tail(todo), nxt, fuel, follow)

Start(path) == IF path.abs THEN <<>> ELSE cwd

\* os.stat and os.lstat
Stat(path) == Walk(path.parts, Start(path), MaxSymlinks, TRUE)
Lstat(path) == Walk(path.parts, Start(path), MaxSymlinks, FALSE)

\* Path.exists(): False on ENOENT, ENOTDIR and ELOOP
Exists(path) == Stat(path).ok
IsDir(path) == Stat(path).ok /\ fs[Stat(path).at].kind = "dir"
IsFile(path) == Stat(path).ok /\ fs[Stat(path).at].kind = "file"
IsSymlink(path) == Lstat(path).ok /\ fs[Lstat(path).at].kind = "link"

\* Path.resolve() of an existing path: absolute, every link followed
Resolve(path) == IF Stat(path).ok THEN AbsPath(Stat(path).at) ELSE path

\* Path.iterdir(): one path per entry of the directory, built on path
Iterdir(path) ==
    LET d == Stat(path).at
    IN {Join(path, Last(q)) : q \in {e \in DOMAIN fs : Len(e) = Len(d) + 1 /\ Front(e) = d}}

(***************************************************************************)
(* Data models                                                              *)
(***************************************************************************)
DotPathModel(parts) == [parts |-> parts]

FilesystemLocationModel(file_path) ==
    [location_type |-> "filesystem", file_path |-> file_path]

PythonModuleLocationModel(file_path, import_root, import_path) ==
    [location_type |-> "python_module", file_path |-> file_path,
     import_root |-> import_root, import_path |-> import_path]

NameModel(short_name, long_name) ==
    [short_name |-> short_name, long_name |-> long_name, aliases |-> <<>>]

FilesystemNodeModel(location, name) ==
    [node_type |-> "filesystem", location |-> location, name |-> name]

PythonModuleNodeModel(location, name) ==
    [node_type |-> "python_module", location |-> location, name |-> name]

(***************************************************************************)
(* Outcomes of a call: a value, a raised exception, or no return at all     *)
(***************************************************************************)
Returns(node) == [tag |-> "node", node |-> node]
Raises(exception, path) == [tag |-> "raise", error |-> exception, path |-> path]
Diverges(path) == [tag |-> "diverge", path |-> path]

(***************************************************************************)
(* Free functions                                                           *)
(***************************************************************************)
is_path_python_module(path) == PathSuffix(path) = DotPy

is_path_init_module(path) == PathName(path) = InitPy

is_path_python_package(path) == IsDir(path) /\ Exists(Join(path, InitPy))

\* the loop leaving a directory that is its own parent after one more
\* iteration
RECURSIVE ClimbPackagesThroughTop(_, _)
ClimbPackagesThroughTop(import_root, parts) ==
    IF is_path_python_package(import_root)
    THEN IF PathParent(import_root) = import_root
         THEN [returns |-> TRUE, import_root |-> import_root,
               parts |-> <<PathName(import_root)>> \o parts]
         ELSE ClimbPackagesThroughTop(PathParent(import_root),
                                      <<PathName(import_root)>> \o parts)
    ELSE [returns |-> TRUE, import_root |-> import_root, parts |-> parts]

\* the loop putting each package name behind the parts, not in front
RECURSIVE ClimbPackagesAppending(_, _)
ClimbPackagesAppending(import_root, parts) ==
    IF is_path_python_package(import_root)
    THEN IF PathParent(import_root) = import_root
         THEN [returns |-> FALSE]
         ELSE ClimbPackagesAppending(PathParent(import_root),
                                     parts \o <<PathName(import_root)>>)
    ELSE [returns |-> TRUE, import_root |-> import_root, parts |-> parts]

\* The while loop of node_from_module_path.  Every iteration but one at a
\* directory that is its own parent shortens import_root; at such a
\* directory the loop condition never changes again.
RECURSIVE ClimbPackages(_, _)
ClimbPackages(import_root, parts) ==
    IF is_path_python_package(import_root)
    THEN IF PathParent(import_root) = import_root
         THEN [returns |-> FALSE]
         ELSE ClimbPackages(PathParent(import_root),
                            <<PathName(import_root)>> \o parts)
    ELSE [returns |-> TRUE, import_root |-> import_root, parts |-> parts]

node_from_module_path(path) ==
    IF ~is_path_python_module(path)
    THEN Raises("PathIsNotPythonModuleError", path)
    ELSE LET init == is_path_init_module(path)
             parts == IF init THEN <<>> ELSE <<PathStem(path)>>
             short_name == IF init THEN PathName(PathParent(path)) ELSE PathStem(path)
             long_name == IF init THEN PathName(PathParent(path)) ELSE PathName(path)
             top == ClimbPackages(PathParent(path), parts)
         IN IF ~top.returns
            THEN Diverges(path)
            ELSE Returns(PythonModuleNodeModel(
                     PythonModuleLocationModel(path, top.import_root,
                                               DotPathModel(top.parts)),
                     NameModel(short_name, long_name)))

\* the loop left out: the path is classified as it was given
KeepSymlinks(path) == path

\* while path.is_symlink(): path = path.resolve()
RECURSIVE ResolveSymlinks(_)
ResolveSymlinks(path) ==
    IF IsSymlink(path) THEN ResolveSymlinks(Resolve(path)) ELSE path

\* the classification handing every file to node_from_module_path
ClassifyEveryFileAsModule(path) ==
    IF IsDir(path)
    THEN IF is_path_python_package(path)
         THEN node_from_module_path(Join(path, InitPy))
         ELSE Returns(FilesystemNodeModel(
                  FilesystemLocationModel(path),
                  NameModel(PathName(path), PathName(path))))
    ELSE node_from_module_path(path)

\* the branches of node_from_path on the resolved path of a file or directory
Classify(path) ==
    IF IsDir(path)
    THEN IF is_path_python_package(path)
         THEN node_from_module_path(Join(path, InitPy))
         ELSE Returns(FilesystemNodeModel(
                  FilesystemLocationModel(path),
                  NameModel(PathName(path), PathName(path))))
    ELSE IF is_path_python_module(path)
    THEN node_from_module_path(path)
    ELSE Returns(FilesystemNodeModel(
             FilesystemLocationModel(path),
             NameModel(PathStem(path), PathName(path))))

\* node_from_path without the test of path.exists()
node_from_path_unchecked(given) ==
    LET path == IF Exists(given) THEN ResolveSymlinks(given) ELSE given IN
    IF ~IsFile(path) /\ ~IsDir(path)
    THEN Raises("PathIsNotFileOrDirectoryError", path)
    ELSE Classify(path)

\* node_from_path without the test of is_file() and is_dir()
node_from_path_any_kind(given) ==
    IF ~Exists(given)
    THEN Raises("PathDoesNotExistError", given)
    ELSE Classify(ResolveSymlinks(given))

node_from_path(given) ==
    IF ~Exists(given)
    THEN Raises("PathDoesNotExistError", given)
    ELSE LET path == ResolveSymlinks(given) IN
         IF ~IsFile(path) /\ ~IsDir(path)
         THEN Raises("PathIsNotFileOrDirectoryError", path)
         ELSE Classify(path)

(***************************************************************************)
(* Child enumeration                                                        *)
(***************************************************************************)
\* the listings a directory can produce: its entries in any order
Listings(entries) ==
    {l \in [1..Cardinality(entries) -> entries] :
        \A i, j \in 1..Cardinality(entries) : l[i] = l[j] => i = j}

\* no node has a directory to list
ListedDirectoryNone(node) == <<>>

\* only filesystem nodes have a directory to list
ListedDirectoryOfFilesystem(node) ==
    IF node.node_type = "filesystem" /\ IsDir(node.location.file_path)
    THEN <<node.location.file_path>>
    ELSE <<>>

\* the directory child_nodes_from_node lists for a node, if any
ListedDirectory(node) ==
    IF node.node_type = "filesystem"
    THEN IF IsDir(node.location.file_path) THEN <<node.location.file_path>> ELSE <<>>
    ELSE IF node.node_type = "python_module"
    THEN IF is_path_init_module(node.location.file_path)
         THEN <<PathParent(node.location.file_path)>>
         ELSE <<>>
    ELSE <<>>

\* the conditions of the two comprehensions: the init file is left out of
\* the children of a package
RECURSIVE SelectChildren(_, _)
SelectChildren(node, listing) ==
    IF listing = <<>> THEN <<>>
    ELSE IF node.node_type = "python_module" /\ Head(listing) = node.location.file_path
         THEN SelectChildren(node, Tail(listing))
         ELSE <<Head(listing)>> \o SelectChildren(node, Tail(listing))

\* the comprehension leaving out the paths that do not classify
RECURSIVE NodesFromPathsSkipping(_, _)
NodesFromPathsSkipping(paths, done) ==
    IF paths = <<>> THEN [tag |-> "nodes", nodes |-> done]
    ELSE LET r == node_from_path(Head(paths)) IN
         IF r.tag = "node"
         THEN NodesFromPathsSkipping(Tail(paths), Append(done, r.node))
         ELSE NodesFromPathsSkipping(Tail(paths), done)

\* the comprehension proper: node_from_path on each path in order; the
\* first call that does not return ends the comprehension
RECURSIVE NodesFromPaths(_, _)
NodesFromPaths(paths, done) ==
    IF paths = <<>> THEN [tag |-> "nodes", nodes |-> done]
    ELSE LET r == node_from_path(Head(paths)) IN
         IF r.tag = "node" THEN NodesFromPaths(Tail(paths), Append(done, r.node))
         ELSE r

\* child_nodes_from_node, given the order in which the directory is listed
child_nodes_from_node(node, listing) ==
    IF ListedDirectory(node) = <<>>
    THEN [tag |-> "nodes", nodes |-> <<>>]
    ELSE NodesFromPaths(SelectChildren(node, listing), <<>>)

(***************************************************************************)
(* Graph                                                                    *)
(***************************************************************************)
Graph(nodes, edges) == [nodes |-> nodes, edges |-> edges]

\* edges seeded with an empty list for the root
EdgesWithEmptyRoot == [k \in {0} |-> <<>>]

\* edges={}
NoEdges == [k \in {} |-> <<>>]

\* add_node without the membership test
add_node_returns_always(g, node) == TRUE

\* the value Graph.add_node returns
add_node_returns(g, node) == \A i \in 1..Len(g.nodes) : g.nodes[i] # node

\* add_node putting the new node in front
add_node_in_front(g, node) ==
    IF add_node_returns(g, node)
    THEN [g EXCEPT !.nodes = <<node>> \o @]
    ELSE g

\* the graph Graph.add_node leaves
add_node(g, node) ==
    IF add_node_returns(g, node)
    THEN [g EXCEPT !.nodes = Append(@, node)]
    ELSE g

\* the edge recorded from the child to the parent
add_edge_reversed(g, parent_index, child_index) ==
    IF child_index \notin DOMAIN g.edges
    THEN [g EXCEPT !.edges = @ @@ (child_index :> <<parent_index>>)]
    ELSE [g EXCEPT !.edges[child_index] = Append(@, parent_index)]

\* add_edge
add_edge(g, parent_index, child_index) ==
    IF parent_index \notin DOMAIN g.edges
    THEN [g EXCEPT !.edges = @ @@ (parent_index :> <<child_index>>)]
    ELSE [g EXCEPT !.edges[parent_index] = Append(@, child_index)]

\* the loop body linking the cursor to a child that was already known
visit_child_relinks(g, idx, child) ==
    LET added == add_node(g, child)
        known == CHOOSE i \in 1..Len(added.nodes) : added.nodes[i] = child
    IN add_edge(added, idx, known - 1)

\* the loop body with child_index = len(graph.nodes)
visit_child_off_by_one(g, idx, child) ==
    LET added == add_node(g, child) IN
    IF add_node_returns(g, child)
    THEN add_edge(added, idx, Len(added.nodes))
    ELSE added

\* the body of "for child in children" in graph_from_path
visit_child(g, idx, child) ==
    LET added == add_node(g, child) IN
    IF add_node_returns(g, child)
    THEN add_edge(added, idx, Len(added.nodes) - 1)
    ELSE added

\* the node discovered last, whatever the cursor
NodeAtNewest(g, i) == g.nodes[Len(g.nodes)]

\* graph.nodes[i], indices from 0
NodeAt(g, i) == g.nodes[i + 1]

(***************************************************************************)
(* Command-line arguments: args.py                                          *)
(***************************************************************************)
\* A str is the sequence of its characters.
DIGITS ==
    <<"0", "1", "2", "3", "4", "5", "6", "7", "8", "9">>
LOWER ==
    <<"a", "b", "c", "d", "e", "f", "g", "h", "i", "j", "k", "l", "m", "n",
      "o", "p", "q", "r", "s", "t", "u", "v", "w", "x", "y", "z">>
UPPER ==
    <<"A", "B", "C", "D", "E", "F", "G", "H", "I", "J", "K", "L", "M", "N",
      "O", "P", "Q", "R", "S", "T", "U", "V", "w", "x", "y", "z">>
ALPHA == LOWER \o UPPER
ALNUM == ALPHA \o DIGITS

\* the characters str.islower() takes for upper case
AsciiUppercase ==
    <<"A", "B", "C", "D", "E", "F", "G", "H", "I", "J", "K", "L", "M", "N",
      "O", "P", "Q", "R", "S", "T", "U", "V", "W", "X", "Y", "Z">>

\* c in string, for one character c
In(c, string) == \E i \in 1..Len(string) : string[i] = c

\* sub in string
Contains(string, sub) ==
    \E i \in 0..(Len(string) - Len(sub)) :
        SubSeq(string, i + 1, i + Len(sub)) = sub

\* string.startswith(prefix)
StartsWith(string, prefix) ==
    Len(string) >= Len(prefix) /\ SubSeq(string, 1, Len(prefix)) = prefix

\* string.replace(c, "")
RECURSIVE Without(_, _)
Without(string, c) ==
    IF string = <<>> THEN <<>>
    ELSE (IF Head(string) = c THEN <<>> ELSE <<Head(string)>>)
             \o Without(Tail(string), c)

\* string.islower(): some cased character, and no upper case character
IsLower(string) ==
    /\ \E i \in 1..Len(string) : In(string[i], LOWER)
    /\ \A i \in 1..Len(string) : ~In(string[i], AsciiUppercase)

\* string.split("=", 1) of a string that holds "="
FirstEquals(string) ==
    CHOOSE i \in 1..Len(string) :
        string[i] = "=" /\ \A j \in 1..(i - 1) : string[j] # "="

\* string[n:]
From(string, n) == SubSeq(string, n + 1, Len(string))

Flag(sentinel, name, full) ==
    [type |-> "Flag", sentinel |-> sentinel, name |-> name, full |-> full]

Assignment(sentinel, name, flag, delimiter, value, full) ==
    [type |-> "Assignment", sentinel |-> sentinel, name |-> name, flag |-> flag,
     delimiter |-> delimiter, value |-> value, full |-> full]

Value(value, full) == [type |-> "Value", value |-> value, full |-> full]

\* the predicates without the check for a doubled separator
IsCaseAllowingDoubled(input_string, separator) ==
    IF ~In(input_string[1], ALNUM) THEN FALSE
    ELSE IF ~In(Last(input_string), ALNUM) THEN FALSE
    ELSE LET trimmed == Without(input_string, separator)
         IN /\ \A i \in 1..Len(trimmed) : In(trimmed[i], ALNUM)
            /\ IsLower(trimmed)

\* the part of both predicates after the string was found not empty
IsCase(input_string, separator) ==
    IF ~In(input_string[1], ALNUM) THEN FALSE
    ELSE IF ~In(Last(input_string), ALNUM) THEN FALSE
    ELSE IF Contains(input_string, <<separator, separator>>) THEN FALSE
    ELSE LET trimmed == Without(input_string, separator)
         IN /\ \A i \in 1..Len(trimmed) : In(trimmed[i], ALNUM)
            /\ IsLower(trimmed)

is_kebab_case(input_string) ==
    IF input_string = <<>> THEN FALSE ELSE IsCase(input_string, "-")

is_snake_case(input_string) ==
    IF input_string = <<>> THEN FALSE ELSE IsCase(input_string, "_")

\* the parser without the check of the length
parse_single_dash_flag_any_length(input_argument) ==
    IF ~StartsWith(input_argument, <<"-">>) THEN <<>>
    ELSE IF Len(input_argument) < 2 THEN <<>>
    ELSE IF ~In(input_argument[2], ALPHA) THEN <<>>
    ELSE <<Flag(<<"-">>, <<input_argument[2]>>, input_argument)>>

\* Each parser is the sequence of the arguments it yields: none or one.
parse_single_dash_flag(input_argument) ==
    IF ~StartsWith(input_argument, <<"-">>) THEN <<>>
    ELSE IF Len(input_argument) # 2 THEN <<>>
    ELSE IF ~In(input_argument[2], ALPHA) THEN <<>>
    ELSE <<Flag(<<"-">>, <<input_argument[2]>>, input_argument)>>

parse_double_dash_flag(input_argument) ==
    IF ~StartsWith(input_argument, <<"-", "-">>) THEN <<>>
    ELSE IF Len(input_argument) < 3 THEN <<>>
    ELSE IF ~In(input_argument[3], ALPHA) THEN <<>>
    ELSE IF In("=", input_argument) THEN <<>>
    ELSE LET name == From(input_argument, 2)
         IN IF ~is_snake_case(name) /\ ~is_kebab_case(name) THEN <<>>
            ELSE <<Flag(<<"-", "-">>, name, input_argument)>>

parse_single_dash_assignment(input_argument) ==
    IF ~StartsWith(input_argument, <<"-">>) THEN <<>>
    ELSE IF Len(input_argument) < 3 THEN <<>>
    ELSE IF ~In(input_argument[2], ALPHA) THEN <<>>
    ELSE IF input_argument[3] # "=" THEN <<>>
    ELSE <<Assignment(<<"-">>, <<input_argument[2]>>,
                      SubSeq(input_argument, 1, 2), <<"=">>,
                      From(input_argument, 3), input_argument)>>

parse_double_dash_assignment(input_argument) ==
    IF ~StartsWith(input_argument, <<"-", "-">>) THEN <<>>
    ELSE IF Len(input_argument) < 4 THEN <<>>
    ELSE IF ~In(input_argument[3], ALPHA) THEN <<>>
    ELSE IF ~In("=", input_argument) THEN <<>>
    ELSE LET at == FirstEquals(input_argument)
             flag == SubSeq(input_argument, 1, at - 1)
             value == From(input_argument, at)
             name == From(flag, 2)
         IN IF ~is_snake_case(name) /\ ~is_kebab_case(name) THEN <<>>
            ELSE <<Assignment(<<"-", "-">>, name, flag, <<"=">>, value,
                              input_argument)>>

DEFAULT_ARGUMENT_PARSERS ==
    <<"parse_double_dash_assignment", "parse_single_dash_assignment",
      "parse_double_dash_flag", "parse_single_dash_flag">>

\* parser(input_argument), for a parser given by its name
Apply(parser, input_argument) ==
    CASE parser = "parse_double_dash_assignment" ->
             parse_double_dash_assignment(input_argument)
      [] parser = "parse_single_dash_assignment" ->
             parse_single_dash_assignment(input_argument)
      [] parser = "parse_double_dash_flag" ->
             parse_double_dash_flag(input_argument)
      [] parser = "parse_single_dash_flag" ->
             parse_single_dash_flag(input_argument)

(***************************************************************************)
(* Filesystems and root paths the construction is run on                    *)
(***************************************************************************)
Absent == [kind |-> "absent"]

Entry(at, e) == IF e = Absent THEN [k \in {} |-> Absent] ELSE (at :> e)

RootInitOptions == {Absent, File}
Init0Options == {Absent, File, Link(<<dir_0, dir_1, file_0_py>>)}
Init1Options == {Absent, File}
LeafOptions == {Absent, File, Other}
InnerLinkOptions ==
    {Absent, Link(<<dir_0>>), Link(<<link_0>>), Link(<<missing>>),
     Link(<<dir_0, dir_1, link_0>>)}
OuterLinkOptions == {Absent, Link(<<dir_0, dir_1>>), Link(<<dir_0>>)}

Filesystem(rootInit, init0, init1, leaf, inner, outer, plain) ==
    (<<>> :> Dir) @@ (<<dir_0>> :> Dir) @@ (<<dir_0, dir_1>> :> Dir)
    @@ Entry(<<dir_0, file_1_txt>>, plain)
    @@ Entry(<<InitPy>>, rootInit)
    @@ Entry(<<dir_0, InitPy>>, init0)
    @@ Entry(<<dir_0, dir_1, InitPy>>, init1)
    @@ Entry(<<dir_0, dir_1, file_0_py>>, leaf)
    @@ Entry(<<dir_0, dir_1, link_0>>, inner)
    @@ Entry(<<link_0>>, outer)

RootPaths ==
    {AbsPath(<<>>), AbsPath(<<dir_0>>), AbsPath(<<dir_0, dir_1>>),
     AbsPath(<<dir_0, dir_1, file_0_py>>), AbsPath(<<dir_0, dir_1, link_0>>),
     AbsPath(<<dir_0, InitPy>>), AbsPath(<<link_0>>),
     AbsPath(<<link_0, file_0_py>>), AbsPath(<<missing>>),
     RelPath(<<>>), RelPath(<<file_0_py>>), RelPath(<<link_0>>)}

\* no directory was listed yet
NoListings == [k \in {} |-> <<>>]

\* the first of two calls records what iterdir() returned for the node at
\* index
Listed(listing) == [k \in DOMAIN listed \cup {index} |->
                       IF k = index THEN listing ELSE listed[k]]

\* the second call lists a directory in the order the first call saw, when
\* the first call listed the same entries at the same index
SameListing(entries, listing) ==
    (first # <<>> /\ index \in DOMAIN listed /\ listed[index] \in Listings(entries))
        => listing = listed[index]

(***************************************************************************)
(* graph_from_path                                                          *)
(***************************************************************************)
\* parse_arguments is not called
NotParsing ==
    /\ input_arguments = <<>>
    /\ parsers = DEFAULT_ARGUMENT_PARSERS
    /\ arguments = <<>>
    /\ argument_index = 1
    /\ parser_index = 1

\* the state before graph_from_path is called on one of the given root
\* paths, over one of the filesystems the given entries make up
Before(rootInits, init0s, init1s, leaves, inners, outers, plains, roots) ==
    /\ \E rootInit \in rootInits, init0 \in init0s, init1 \in init1s, plain \in plains,
          leaf \in leaves, inner \in inners, outer \in outers :
          fs = Filesystem(rootInit, init0, init1, leaf, inner, outer, plain)
    /\ root \in roots
    /\ pc = "start"
    /\ graph = Graph(<<>>, NoEdges)
    /\ index = 0
    /\ children = <<>>
    /\ error = ""
    /\ failed_path = <<>>
    /\ result = <<>>
    /\ tick = 0
    /\ first = <<>>
    /\ listed = NoListings
    /\ calls = 1
    /\ NotParsing

\* the directories the end-to-end tests stage: dir_0 and dir_1 with or
\* without __init__.py and file_0.py, and nothing else
StagedRoots == {AbsPath(<<dir_0>>), AbsPath(<<dir_0, dir_1>>)}

InitStaged ==
    Before({Absent}, {Absent, File}, Init1Options, {Absent, File},
           {Absent}, {Absent}, {Absent}, StagedRoots)

Init ==
    \/ Before(RootInitOptions, Init0Options, Init1Options, LeafOptions,
              InnerLinkOptions, OuterLinkOptions, {File}, RootPaths)
    \/ InitStaged

\* the packages and cycles among the filesystems
InitPackages ==
    Before(RootInitOptions, {Absent, File}, {Absent, File}, {File},
           {Absent, Link(<<dir_0>>), Link(<<missing>>)}, {Absent}, {File},
           {AbsPath(<<dir_0>>), AbsPath(<<dir_0, dir_1, link_0>>),
            RelPath(<<>>), RelPath(<<file_0_py>>)})

\* the exception leaves graph_from_path
Fail(r) ==
    /\ pc' = "failed"
    /\ error' = r.error
    /\ failed_path' = <<r.path>>

\* the call entered the loop of node_from_module_path that never ends
Hang(r) ==
    /\ pc' = "climbing"
    /\ failed_path' = <<r.path>>
    /\ UNCHANGED error

\* the call starting from the edges the call before it built, as with one
\* dict shared by all graphs
ClassifyRootSharingEdges ==
    /\ pc = "start"
    /\ LET r == node_from_path(root) IN
       CASE r.tag = "node" ->
              /\ graph' = Graph(<<r.node>>, IF first = <<>> THEN NoEdges
                                            ELSE first[1].result.edges)
              /\ pc' = "loop"
              /\ UNCHANGED <<error, failed_path>>
         [] r.tag = "raise" -> Fail(r) /\ UNCHANGED graph
         [] r.tag = "diverge" -> Hang(r) /\ UNCHANGED graph
    /\ index' = 0
    /\ UNCHANGED <<fs, root, children, result, first, listed, calls>>
    /\ tick' = 1 - tick
    /\ UNCHANGED args_vars

\* node = node_from_path(path); graph = Graph(nodes=[node], edges={}); index = 0
ClassifyRoot ==
    /\ pc = "start"
    /\ LET r == node_from_path(root) IN
       CASE r.tag = "node" ->
              /\ graph' = Graph(<<r.node>>, NoEdges)
              /\ pc' = "loop"
              /\ UNCHANGED <<error, failed_path>>
         [] r.tag = "raise" -> Fail(r) /\ UNCHANGED graph
         [] r.tag = "diverge" -> Hang(r) /\ UNCHANGED graph
    /\ index' = 0
    /\ UNCHANGED <<fs, root, children, result, first, listed, calls>>
    /\ tick' = 1 - tick
    /\ UNCHANGED args_vars

\* while index < len(graph.nodes): children = child_nodes_from_node(node)
Expand ==
    /\ pc = "loop"
    /\ index < Len(graph.nodes)
    /\ LET node == NodeAt(graph, index)
           dir == ListedDirectory(node)
           entries == IF dir = <<>> THEN {} ELSE Iterdir(dir[1])
       IN \E listing \in Listings(entries) :
            /\ SameListing(entries, listing)
            /\ listed' = IF calls = 2 /\ first = <<>> THEN Listed(listing) ELSE listed
            /\ LET r == child_nodes_from_node(node, listing) IN
               CASE r.tag = "nodes" ->
                      /\ children' = r.nodes
                      /\ pc' = "children"
                      /\ UNCHANGED <<error, failed_path>>
                 [] r.tag = "raise" -> Fail(r) /\ UNCHANGED children
                 [] r.tag = "diverge" -> Hang(r) /\ UNCHANGED children
    /\ UNCHANGED <<fs, root, graph, index, result, first, calls>>
    /\ tick' = 1 - tick
    /\ UNCHANGED args_vars

\* one iteration of "for child in children"
VisitChild ==
    /\ pc = "children"
    /\ children # <<>>
    /\ graph' = visit_child(graph, index, Head(children))
    /\ children' = Tail(children)
    /\ UNCHANGED <<fs, root, pc, index, error, failed_path, result, first, listed, calls>>
    /\ tick' = 1 - tick
    /\ UNCHANGED args_vars

\* index += 1
Advance ==
    /\ pc = "children"
    /\ children = <<>>
    /\ index' = index + 1
    /\ pc' = "loop"
    /\ UNCHANGED <<fs, root, graph, children, error, failed_path, result, first, listed, calls>>
    /\ tick' = 1 - tick
    /\ UNCHANGED args_vars

\* the loop left as soon as the root was expanded
ReturnAfterRoot ==
    /\ pc = "loop"
    /\ index >= 1
    /\ result' = <<graph>>
    /\ pc' = "done"
    /\ UNCHANGED <<fs, root, graph, index, children, error, failed_path, first, listed, calls>>
    /\ tick' = 1 - tick
    /\ UNCHANGED args_vars

\* return graph
Return ==
    /\ pc = "loop"
    /\ ~(index < Len(graph.nodes))
    /\ result' = <<graph>>
    /\ pc' = "done"
    /\ UNCHANGED <<fs, root, graph, index, children, error, failed_path, first, listed, calls>>
    /\ tick' = 1 - tick
    /\ UNCHANGED args_vars

\* one more iteration of "while is_path_python_package(import_root)" at a
\* directory that is its own parent: the condition stays true, an empty
\* name is put in front of parts and import_root stays what it is
Climb ==
    /\ pc = "climbing"
    /\ tick' = 1 - tick
    /\ UNCHANGED <<fs, root, pc, graph, index, children, error, failed_path, result,
                   first, listed, calls>>
    /\ UNCHANGED args_vars

\* the paths that name the root of a second call: the same path, or, for a
\* symbolic link, what the link resolves to
SecondRoots(path) ==
    {path} \cup (IF IsSymlink(path) /\ Exists(path) THEN {Resolve(path)} ELSE {})

\* the caller calls graph_from_path once more, over the unchanged
\* filesystem, after the first call returned
CallAgain ==
    /\ pc = "done"
    /\ calls = 2
    /\ first = <<>>
    /\ first' = <<[root |-> root, result |-> result[1]]>>
    /\ root' \in SecondRoots(root)
    /\ pc' = "start"
    /\ graph' = Graph(<<>>, NoEdges)
    /\ index' = 0
    /\ children' = <<>>
    /\ result' = <<>>
    /\ tick' = 1 - tick
    /\ UNCHANGED <<fs, error, failed_path, listed, calls>>
    /\ UNCHANGED args_vars

Next == ClassifyRoot \/ Expand \/ VisitChild \/ Advance \/ Return \/ Climb

Spec == Init /\ [][Next]_vars

\* graph_from_path has a next step to take
Running == pc \in {"start", "loop", "children", "climbing"}

\* the interpreter takes it
Run == Running /\ tick' = 1 - tick

\* The interpreter never stops between two steps.  Every step of Next
\* changes tick and some step of graph_from_path is possible exactly when
\* Running, so this is weak fairness of the steps of graph_from_path; the
\* caller is free to call again or not.
FairSpec == Init /\ [][Next]_vars /\ WF_tick(Run)

\* the filesystems and roots of the calls that are made twice: every link
\* and chain of links, packages and plain directories below a root
\* directory that is no package
TwiceRoots ==
    {AbsPath(<<dir_0>>), AbsPath(<<dir_0, dir_1>>),
     AbsPath(<<dir_0, dir_1, link_0>>), AbsPath(<<link_0>>),
     AbsPath(<<dir_0, dir_1, file_0_py>>), RelPath(<<>>)}

InitTwice ==
    /\ \E init0 \in Init0Options, init1 \in Init1Options,
          inner \in InnerLinkOptions, outer \in OuterLinkOptions :
          fs = Filesystem(Absent, init0, init1, File, inner, outer, File)
    /\ root \in TwiceRoots
    /\ pc = "start"
    /\ graph = Graph(<<>>, NoEdges)
    /\ index = 0
    /\ children = <<>>
    /\ error = ""
    /\ failed_path = <<>>
    /\ result = <<>>
    /\ tick = 0
    /\ first = <<>>
    /\ listed = NoListings
    /\ calls = 2
    /\ NotParsing

NextTwice == Next \/ CallAgain

\* two calls of graph_from_path over one filesystem
SpecTwice == InitTwice /\ [][NextTwice]_vars

(***************************************************************************)
(* parse_arguments                                                          *)
(***************************************************************************)
MaxArgLen == 5
MaxArgs == 3

\* one character of each kind the parsers tell apart
Characters == {"-", "=", "a", "A", "W", "5", "_"}

\* the strings of at most n characters
Strings(n) == UNION {[1..k -> Characters] : k \in 0..n}

\* the arguments of the tests, the names cut down to one letter
Samples ==
    {<<"-", "a">>, <<"-", "-", "a">>, <<"-", "a", "=", "5">>,
     <<"-", "-", "a", "=", "5">>, <<"5">>}

\* graph_from_path is not called
NotTraversing ==
    /\ fs = Filesystem(Absent, Absent, Absent, Absent, Absent, Absent, Absent)
    /\ root = AbsPath(<<>>)
    /\ pc = "start"
    /\ graph = Graph(<<>>, NoEdges)
    /\ index = 0
    /\ children = <<>>
    /\ error = ""
    /\ failed_path = <<>>
    /\ result = <<>>
    /\ tick = 0
    /\ first = <<>>
    /\ listed = NoListings
    /\ calls = 1

\* parse_arguments is called with the default parsers on one argument of at
\* most MaxArgLen characters, or on at most MaxArgs of the sample arguments
InitArgs ==
    /\ input_arguments \in
          {<<s>> : s \in Strings(MaxArgLen)}
              \cup UNION {[1..k -> Samples] : k \in {0} \cup 2..MaxArgs}
    /\ parsers = DEFAULT_ARGUMENT_PARSERS
    /\ arguments = <<>>
    /\ argument_index = 1
    /\ parser_index = 1
    /\ NotTraversing

\* the iteration without the break: the next parser is tried whatever this
\* one yielded
TryParserWithoutBreak ==
    /\ argument_index <= Len(input_arguments)
    /\ parser_index <= Len(parsers)
    /\ arguments' = arguments \o Apply(parsers[parser_index],
                                        input_arguments[argument_index])
    /\ parser_index' = parser_index + 1
    /\ UNCHANGED <<input_arguments, parsers, argument_index, graph_vars>>

\* one iteration of "for parser in parsers": what the parser yields is
\* yielded, and if it yielded anything the loop is left
TryParser ==
    /\ argument_index <= Len(input_arguments)
    /\ parser_index <= Len(parsers)
    /\ LET yielded == Apply(parsers[parser_index], input_arguments[argument_index])
       IN /\ arguments' = arguments \o yielded
          /\ IF yielded # <<>>
             THEN argument_index' = argument_index + 1 /\ parser_index' = 1
             ELSE parser_index' = parser_index + 1 /\ UNCHANGED argument_index
    /\ UNCHANGED <<input_arguments, parsers, graph_vars>>

\* the else of the loop: no parser yielded anything
YieldValue ==
    /\ argument_index <= Len(input_arguments)
    /\ parser_index > Len(parsers)
    /\ arguments' = Append(arguments, Value(input_arguments[argument_index],
                                            input_arguments[argument_index]))
    /\ argument_index' = argument_index + 1
    /\ parser_index' = 1
    /\ UNCHANGED <<input_arguments, parsers, graph_vars>>

NextArgs == TryParser \/ YieldValue

SpecArgs == InitArgs /\ [][NextArgs]_vars

MaxNameLen == 5

\* one character of each kind is_kebab_case and is_snake_case tell apart
NameCharacters == {"a", "A", "5", "-", "_"}

\* the names of at most n characters
Names(n) == UNION {[1..k -> NameCharacters] : k \in 0..n}

\* parse_arguments is called with the default parsers on one double dash
\* argument: "--" and a name of at most MaxNameLen characters, alone or
\* followed by "=", by "=5" or by "=5=5"
InitNames ==
    /\ \E name \in Names(MaxNameLen) :
       \E rest \in {<<>>, <<"=">>, <<"=", "5">>, <<"=", "5", "=", "5">>} :
          input_arguments = << <<"-", "-">> \o name \o rest >>
    /\ parsers = DEFAULT_ARGUMENT_PARSERS
    /\ arguments = <<>>
    /\ argument_index = 1
    /\ parser_index = 1
    /\ NotTraversing

SpecNames == InitNames /\ [][NextArgs]_vars

\* the default parsers in every order
ParserOrders ==
    {order \in [1..Len(DEFAULT_ARGUMENT_PARSERS) ->
                    {DEFAULT_ARGUMENT_PARSERS[k] : k \in 1..Len(DEFAULT_ARGUMENT_PARSERS)}] :
        \A i, j \in 1..Len(DEFAULT_ARGUMENT_PARSERS) : order[i] = order[j] => i = j}

\* parse_arguments is called with the default parsers in some order, on one
\* argument of less than MaxArgLen characters or on two sample arguments
InitOrders ==
    /\ input_arguments \in
          {<<s>> : s \in Strings(MaxArgLen - 1)} \cup [1..2 -> Samples]
    /\ parsers \in ParserOrders
    /\ arguments = <<>>
    /\ argument_index = 1
    /\ parser_index = 1
    /\ NotTraversing

SpecOrders == InitOrders /\ [][NextArgs]_vars

(***************************************************************************)
(* Properties                                                               *)
(***************************************************************************)
\* the paths child_nodes_from_node classifies for a node
EnumeratedPaths(node) ==
    IF ListedDirectory(node) = <<>> THEN {}
    ELSE {c \in Iterdir(ListedDirectory(node)[1]) :
            ~(node.node_type = "python_module" /\ c = node.location.file_path)}

\* the number of edge entries of a graph
RECURSIVE SumOfLengths(_, _)
SumOfLengths(f, keys) ==
    IF keys = {} THEN 0
    ELSE LET k == CHOOSE x \in keys : TRUE
         IN Len(f[k]) + SumOfLengths(f, keys \ {k})

EdgeEntries(g) == SumOfLengths(g.edges, DOMAIN g.edges)

IsPrefix(s, t) == Len(s) <= Len(t) /\ SubSeq(t, 1, Len(s)) = s

\* the symlink-free location a node stands for
CanonicalLocation(node) == Stat(node.location.file_path).at

\* some node of the graph enumerates a child that classifies to a node
\* found no later than itself: a cycle or a second way to a known node
SomeChildWasKnown ==
    \E i, j \in 1..Len(graph.nodes) :
        /\ j <= i
        /\ \E c \in EnumeratedPaths(graph.nodes[i]) :
              node_from_path(c) = Returns(graph.nodes[j])

\* C1: graph_from_path terminates on every finite filesystem, also with
\* cycles of symbolic links: every run comes to return the graph or to
\* raise the exception of a path that does not classify.
C1_Terminates == <>(pc = "done" \/ pc = "failed")

\* C2: at every point of graph_from_path, and in the graph it returns, no
\* two entries of graph.nodes are equal.
C2_NoEqualNodes ==
    \A i, j \in 1..Len(graph.nodes) : graph.nodes[i] = graph.nodes[j] => i = j

C2_Witness ==
    /\ pc = "done"
    /\ Len(graph.nodes) >= 2
    /\ SomeChildWasKnown

\* C3: no two nodes of a graph stand for the same canonical location,
\* whatever path the root was given by and wherever the links are.
C3_OneNodePerLocation ==
    \A i, j \in 1..Len(graph.nodes) :
        CanonicalLocation(graph.nodes[i]) = CanonicalLocation(graph.nodes[j])
            => i = j

\* C4: while one enumerated child is processed, either no equal node exists
\* and exactly one node and exactly one edge cursor -> new index are added,
\* or an equal node exists and neither nodes nor edges change; so the number
\* of edge entries is always len(nodes) - 1.
C4_ChildStep ==
    (pc = "children" /\ children # <<>> /\ children' = Tail(children)) =>
        LET child == Head(children)
            known == \E i \in 1..Len(graph.nodes) : graph.nodes[i] = child
        IN IF known
           THEN graph' = graph
           ELSE /\ graph'.nodes = Append(graph.nodes, child)
                /\ EdgeEntries(graph') = EdgeEntries(graph) + 1
                /\ index \in DOMAIN graph'.edges
                /\ Last(graph'.edges[index]) = Len(graph.nodes)
                /\ Front(graph'.edges[index]) =
                       (IF index \in DOMAIN graph.edges
                        THEN graph.edges[index] ELSE <<>>)
                /\ \A k \in DOMAIN graph.edges \ {index} :
                       k \in DOMAIN graph'.edges /\ graph'.edges[k] = graph.edges[k]

C4_OneEdgePerDiscovery ==
    /\ [](Len(graph.nodes) >= 1 => EdgeEntries(graph) = Len(graph.nodes) - 1)
    /\ [][C4_ChildStep]_vars

C4_Witness ==
    /\ pc = "children"
    /\ children # <<>>
    /\ Len(graph.nodes) >= 2
    /\ \E i \in 1..Len(graph.nodes) : graph.nodes[i] = Head(children)

\* C5: at every point of graph_from_path every key of graph.edges and every
\* index in every edge list is a valid index into graph.nodes.
C5_EdgeIndicesValid ==
    \A k \in DOMAIN graph.edges :
        /\ 0 <= k /\ k < Len(graph.nodes)
        /\ \A i \in 1..Len(graph.edges[k]) :
              0 <= graph.edges[k][i] /\ graph.edges[k][i] < Len(graph.nodes)

C5_Witness ==
    /\ pc = "done"
    /\ Cardinality(DOMAIN graph.edges) >= 2
    /\ \E k \in DOMAIN graph.edges : Len(graph.edges[k]) >= 2

\* the nodes whose children have been enumerated: those before the cursor
\* and, while its children are being processed, the one at the cursor
Expanded ==
    {i \in 1..Len(graph.nodes) : i - 1 < index \/ (i - 1 = index /\ pc = "children")}

\* the path exists and what it leads to is neither a file nor a directory
Unsupported(path) ==
    Exists(path) /\ fs[Stat(path).at].kind \notin {"file", "dir"}

\* C6: construction only appends: across every step of one call the earlier
\* nodes are a prefix of the later nodes and every edge list a prefix of its
\* later value, no key is dropped, and nodes[0] is the node of the root path.
C6_AppendStep ==
    first' = first =>
        /\ IsPrefix(graph.nodes, graph'.nodes)
        /\ \A k \in DOMAIN graph.edges :
              k \in DOMAIN graph'.edges /\ IsPrefix(graph.edges[k], graph'.edges[k])

C6_AppendOnly ==
    /\ [](Len(graph.nodes) >= 1 => Returns(graph.nodes[1]) = node_from_path(root))
    /\ [][C6_AppendStep]_vars

C6_Witness ==
    /\ pc = "done"
    /\ Len(graph.nodes) >= 4
    /\ \E k \in DOMAIN graph.edges : Len(graph.edges[k]) >= 2

\* C7: when the classification of a child path fails, graph_from_path ends
\* with that error and returns no graph, whatever was collected before: the
\* traversal gets past a node only if all its children classify, and a
\* failed run holds the exception of a path of the node at the cursor.
C7_ChildFailureAborts ==
    /\ \A i \in Expanded : \A c \in EnumeratedPaths(graph.nodes[i]) :
          node_from_path(c).tag = "node"
    /\ pc = "failed" =>
          /\ result = <<>>
          /\ node_from_path(failed_path[1]) = Raises(error, failed_path[1])
          /\ Len(graph.nodes) >= 1 =>
                \E c \in EnumeratedPaths(NodeAt(graph, index)) :
                    node_from_path(c) = Raises(error, failed_path[1])
    /\ result # <<>> => pc = "done"

C7_Witness ==
    /\ pc = "failed"
    /\ index >= 1
    /\ Len(graph.nodes) >= 3
    /\ EdgeEntries(graph) >= 2

\* C8: node_from_path and graph_from_path fail with PathDoesNotExistError
\* for every path that does not exist, a symbolic link with a broken or
\* circular chain included, and produce no node and no graph.
C8_MissingPathNotFound ==
    /\ (pc # "start" /\ ~Exists(root)) =>
          /\ pc = "failed"
          /\ error = "PathDoesNotExistError"
          /\ failed_path = <<root>>
          /\ graph.nodes = <<>>
          /\ result = <<>>
    /\ pc = "failed" =>
          (error = "PathDoesNotExistError" <=> ~Exists(failed_path[1]))
    /\ \A i \in Expanded : \A c \in EnumeratedPaths(graph.nodes[i]) : Exists(c)

C8_Witness ==
    /\ pc = "failed"
    /\ error = "PathDoesNotExistError"
    /\ IsSymlink(root)

\* C9: node_from_path fails with PathIsNotFileOrDirectoryError exactly
\* when the path exists and what its links lead to is neither a regular
\* file nor a directory; no node is produced then.
C9_UnsupportedExactly ==
    /\ pc # "start" =>
          ((pc = "failed" /\ error = "PathIsNotFileOrDirectoryError"
                /\ graph.nodes = <<>>)
             <=> Unsupported(root))
    /\ pc = "failed" =>
          /\ error = "PathIsNotFileOrDirectoryError" <=> Unsupported(failed_path[1])
          /\ result = <<>>
    /\ \A i \in Expanded : \A c \in EnumeratedPaths(graph.nodes[i]) : ~Unsupported(c)

C9_Witness ==
    /\ pc = "failed"
    /\ error = "PathIsNotFileOrDirectoryError"
    /\ IsSymlink(root)
    /\ failed_path # <<root>>

\* C10: PathIsNotPythonModuleError is never raised by a call of
\* node_from_path, child_nodes_from_node or graph_from_path.
C10_NotAModuleUnreachable == error # "PathIsNotPythonModuleError"

C10_Witness ==
    /\ pc = "done"
    /\ \E i, j, k \in 1..Len(graph.nodes) :
          /\ graph.nodes[i].node_type = "python_module"
          /\ is_path_init_module(graph.nodes[i].location.file_path)
          /\ graph.nodes[j].node_type = "python_module"
          /\ ~is_path_init_module(graph.nodes[j].location.file_path)
          /\ graph.nodes[k].node_type = "filesystem"
          /\ IsFile(graph.nodes[k].location.file_path)

\* C11: a symbolic link, alone or at the head of a chain, classifies to the
\* node its final target classifies to, and never to a node of its own:
\* the root node of a call on a link is what node_from_path returns for the
\* resolved path, every enumerated child that is a link classifies as its
\* resolved path does, and a second call on the resolved root, listing the
\* directories in the same order, returns the graph the call on the link
\* returned.
C11_SymlinkTransparent ==
    /\ (graph.nodes # <<>> /\ IsSymlink(root)) =>
          /\ Returns(graph.nodes[1]) = node_from_path(Resolve(root))
          /\ graph.nodes[1].location.file_path # root
    /\ \A i \in Expanded : \A c \in EnumeratedPaths(graph.nodes[i]) :
          (IsSymlink(c) /\ Exists(c)) =>
              node_from_path(c) = node_from_path(Resolve(c))
    /\ (pc = "done" /\ first # <<>> /\ first[1].root # root) =>
          result[1] = first[1].result

\* the root is a link inside the directory it leads to, through a second
\* link; the call on the link and the call on the directory both returned
C11_Witness ==
    /\ pc = "done"
    /\ first # <<>>
    /\ first[1].root = AbsPath(<<dir_0, dir_1, link_0>>)
    /\ root = AbsPath(<<dir_0, dir_1>>)
    /\ IsSymlink(AbsPath(<<link_0>>))
    /\ Len(result[1].nodes) >= 2

\* the paths the call has classified: the root and the enumerated children
ClassifiedPaths ==
    (IF pc = "start" THEN {} ELSE {root})
        \cup UNION {EnumeratedPaths(graph.nodes[i]) : i \in Expanded}

\* C12: a directory with an entry named __init__.py classifies as
\* node_from_path classifies that entry, to a module node whose file is the
\* entry; a directory without such an entry classifies to a filesystem node.
C12_PackageIsInitModule ==
    \A path \in ClassifiedPaths :
        (IsDir(path) /\ ~IsSymlink(path)) =>
            LET init == Join(path, InitPy)
                r == node_from_path(path)
            IN IF init \in Iterdir(path)
               THEN /\ r = node_from_path(init)
                    /\ r.tag = "node" =>
                          /\ r.node.node_type = "python_module"
                          /\ r.node.location.file_path = init
               ELSE /\ r.tag = "node"
                    /\ r.node.node_type = "filesystem"

\* the directory made of the first k components of a path
Ancestor(path, k) == [abs |-> path.abs, parts |-> SubSeq(path.parts, 1, k)]

\* the greatest element of a non-empty set of numbers
Greatest(S) == CHOOSE k \in S : \A j \in S : j <= k

\* C13: in every module node, import_root is the nearest ancestor directory
\* of the file that is no package, import_path is the names of the
\* directories between import_root and the file, outermost first, followed
\* by the stem of the file unless the file is __init__.py, whose short_name
\* and long_name are the name of its directory.
C13_ImportRootAndPath ==
    \A i \in 1..Len(graph.nodes) :
        LET node == graph.nodes[i]
            path == node.location.file_path
            len == Len(path.parts)
            plain == {k \in 0..(len - 1) :
                        ~is_path_python_package(Ancestor(path, k))}
        IN node.node_type = "python_module" =>
            /\ plain # {}
            /\ LET k == Greatest(plain)
                   packages == SubSeq(path.parts, k + 1, len - 1)
                   parts == node.location.import_path.parts
               IN /\ node.location.import_root = Ancestor(path, k)
                  /\ IF path.parts[len] = InitPy
                     THEN /\ parts = packages
                          /\ node.name.short_name = path.parts[len - 1]
                          /\ node.name.long_name = path.parts[len - 1]
                     ELSE /\ Front(parts) = packages
                          /\ Last(parts) \o DotPy = path.parts[len]
                          /\ node.name.short_name = Last(parts)
                          /\ node.name.long_name = path.parts[len]

\* a module below two packages and the __init__.py of the inner package
C13_Witness ==
    \E i, j \in 1..Len(graph.nodes) :
        /\ graph.nodes[i].node_type = "python_module"
        /\ graph.nodes[i].location.import_path.parts = <<dir_0, dir_1, SubSeq(file_0_py, 1, 6)>>
        /\ graph.nodes[j].node_type = "python_module"
        /\ graph.nodes[j].location.file_path = AbsPath(<<dir_0, dir_1, InitPy>>)
        /\ graph.nodes[j].location.import_path.parts = <<dir_0, dir_1>>

\* C14: edges never holds a key mapped to an empty list, and a root whose
\* node has nothing to enumerate (a plain file, a module file that is no
\* __init__.py, an empty directory) makes the call return nodes == [root
\* node] and edges == {}, without failing.
C14_NoEmptyEdgeLists ==
    /\ \A k \in DOMAIN graph.edges : graph.edges[k] # <<>>
    /\ (graph.nodes # <<>> /\ EnumeratedPaths(graph.nodes[1]) = {}) =>
          /\ pc \in {"loop", "children", "done"}
          /\ graph = Graph(<<node_from_path(root).node>>, NoEdges)
          /\ pc = "done" => result = <<graph>>

\* returned for an empty directory; for a module inside a package
C14_Witness ==
    /\ pc = "done"
    /\ result = <<Graph(graph.nodes, NoEdges)>>
    /\ Len(graph.nodes) = 1
    /\ \/ IsDir(root) /\ Iterdir(root) = {}
       \/ /\ graph.nodes[1].node_type = "python_module"
          /\ Len(graph.nodes[1].location.import_path.parts) >= 2

\* the filesystem node the tests expect for a directory
DirectoryNode(path) ==
    FilesystemNodeModel(FilesystemLocationModel(path),
                        NameModel(PathName(path), PathName(path)))

\* path is a directory whose only entry is the empty directory sub
OnlyEmptySubdirectory(path, sub) ==
    /\ IsDir(path) /\ ~IsSymlink(path)
    /\ Iterdir(path) = {sub}
    /\ IsDir(sub) /\ ~IsSymlink(sub)
    /\ Iterdir(sub) = {}

\* C15, as stated: the call on a directory whose only entry is an empty
\* subdirectory returns that subdirectory's filesystem node alone, and no
\* edges.
C15_SubdirectoryAlone ==
    (pc = "done" /\ IsDir(root)) =>
        \A sub \in Iterdir(root) :
            OnlyEmptySubdirectory(root, sub) =>
                result = <<Graph(<<DirectoryNode(sub)>>, NoEdges)>>

\* C15, amended: the call on an empty directory returns that directory's
\* filesystem node alone and no edges; the call on a directory whose only
\* entry is an empty subdirectory returns the node of the directory, then
\* the node of the subdirectory, and edges == {0: [1]}.
C15_EmptyDirectoryAlone ==
    (pc = "done" /\ IsDir(root) /\ ~IsSymlink(root)) =>
        /\ Iterdir(root) = {} => result = <<Graph(<<DirectoryNode(root)>>, NoEdges)>>
        /\ \A sub \in Iterdir(root) :
              OnlyEmptySubdirectory(root, sub) =>
                  result = <<Graph(<<DirectoryNode(root), DirectoryNode(sub)>>,
                                   (0 :> <<1>>))>>

\* the call on dir_0, whose only entry is the empty dir_1, has returned
C15_Witness ==
    /\ pc = "done"
    /\ root = AbsPath(<<dir_0>>)
    /\ OnlyEmptySubdirectory(root, AbsPath(<<dir_0, dir_1>>))

\* the staging of the test: package dir_0 holding only package dir_1
\* holding only file_0.py
NestedPackages == Filesystem(Absent, File, File, File, Absent, Absent, Absent)

\* the module node of a file with the given import root and import path
ModuleNode(path, import_root, parts, short_name, long_name) ==
    PythonModuleNodeModel(
        PythonModuleLocationModel(path, import_root, DotPathModel(parts)),
        NameModel(short_name, long_name))

\* C16: the call on package dir_0 holding only package dir_1 holding only
\* file_0.py does not fail and returns three module nodes, dir_0, dir_1 and
\* file_0 in this order, with import paths [dir_0], [dir_0, dir_1] and
\* [dir_0, dir_1, file_0], and edges == {0: [1], 1: [2]}; no __init__.py
\* is a further node.
C16_NestedPackages ==
    (fs = NestedPackages /\ root = AbsPath(<<dir_0>>)) =>
        /\ pc \in {"start", "loop", "children", "done"}
        /\ pc = "done" =>
              result = <<Graph(
                  <<ModuleNode(AbsPath(<<dir_0, InitPy>>), AbsPath(<<>>),
                               <<dir_0>>, dir_0, dir_0),
                    ModuleNode(AbsPath(<<dir_0, dir_1, InitPy>>), AbsPath(<<>>),
                               <<dir_0, dir_1>>, dir_1, dir_1),
                    ModuleNode(AbsPath(<<dir_0, dir_1, file_0_py>>), AbsPath(<<>>),
                               <<dir_0, dir_1, SubSeq(file_0_py, 1, 6)>>,
                               SubSeq(file_0_py, 1, 6), file_0_py)>>,
                  (0 :> <<1>>) @@ (1 :> <<2>>))>>

C16_Witness ==
    /\ fs = NestedPackages
    /\ root = AbsPath(<<dir_0>>)
    /\ pc = "done"
    /\ Len(result[1].nodes) = 3

\* C17: no step of graph_from_path changes the filesystem, and a second
\* call on the same root, over the same filesystem and with each directory
\* listed in the order the first call saw, returns a graph equal to the
\* graph the first call returned.
C17_SameGraphTwice ==
    /\ []((pc = "done" /\ first # <<>> /\ first[1].root = root) =>
              result = <<first[1].result>>)
    /\ [][fs' = fs]_vars

\* both calls returned a graph in which the listing order shows
C17_Witness ==
    /\ pc = "done"
    /\ first # <<>>
    /\ first[1].root = root
    /\ \E k \in DOMAIN result[1].edges : Len(result[1].edges[k]) >= 2

\* an ASCII letter, a-z or A-Z
IsAsciiLetter(c) == In(c, LOWER) \/ In(c, AsciiUppercase)

\* the number of "=" in a string
RECURSIVE CountEquals(_)
CountEquals(string) ==
    IF string = <<>> THEN 0
    ELSE (IF Head(string) = "=" THEN 1 ELSE 0) + CountEquals(Tail(string))

\* C18: parse_single_dash_flag yields exactly one Flag, with sentinel "-",
\* the letter as name and the argument as full, for every argument made of
\* "-" and one ASCII letter, and yields nothing for every other argument.
C18_SingleDashFlag ==
    \A i \in 1..Len(input_arguments) :
        LET a == input_arguments[i] IN
        parse_single_dash_flag(a) =
            IF Len(a) = 2 /\ a[1] = "-" /\ IsAsciiLetter(a[2])
            THEN <<Flag(<<"-">>, <<a[2]>>, a)>>
            ELSE <<>>

\* C19: parse_double_dash_assignment yields nothing for an argument that
\* holds more than one "=", and what it yields is one Assignment for an
\* argument "--" name "=" value with a single "=", the value possibly empty.
C19_DoubleDashAssignment ==
    \A i \in 1..Len(input_arguments) :
        LET a == input_arguments[i]
            yielded == parse_double_dash_assignment(a)
        IN /\ CountEquals(a) > 1 => yielded = <<>>
           /\ yielded # <<>> =>
                 /\ Len(yielded) = 1
                 /\ yielded[1].type = "Assignment"
                 /\ CountEquals(a) = 1
                 /\ a = <<"-", "-">> \o yielded[1].name \o <<"=">> \o yielded[1].value

\* the first parser of the list that yields anything for an argument
FirstYielding(a) ==
    LET yielding == {k \in 1..Len(parsers) : Apply(parsers[k], a) # <<>>}
    IN IF yielding = {} THEN 0
       ELSE CHOOSE k \in yielding : \A j \in yielding : k <= j

\* C20: with the default parsers, parse_arguments yields one Argument per
\* input, in input order, whose full is the input: what the first parser
\* of the list that yields anything yields, or Value(input, input) when no
\* parser yields anything.
C20_OneArgumentPerInput ==
    /\ Len(arguments) = argument_index - 1
    /\ argument_index <= Len(input_arguments) + 1
    /\ \A i \in 1..Len(arguments) :
          LET a == input_arguments[i]
              k == FirstYielding(a)
          IN /\ arguments[i].full = a
             /\ IF k = 0
                THEN arguments[i] = Value(a, a)
                ELSE <<arguments[i]>> = Apply(parsers[k], a)

\* three inputs were parsed: to a Flag, to an Assignment and to a Value
C20_Witness ==
    /\ Len(input_arguments) = 3
    /\ argument_index = 4
    /\ arguments[1].type = "Flag"
    /\ arguments[2].type = "Assignment"
    /\ arguments[3].type = "Value"

\* the name starts with a lower-case letter and consists of lower-case
\* letters, digits and the separator, which is neither doubled nor last
WellFormedWith(name, separator) ==
    /\ name # <<>>
    /\ In(name[1], LOWER)
    /\ \A i \in 1..Len(name) :
          In(name[i], LOWER) \/ In(name[i], DIGITS) \/ name[i] = separator
    /\ \A i \in 1..(Len(name) - 1) :
          ~(name[i] = separator /\ name[i + 1] = separator)
    /\ Last(name) # separator

\* C21: the name of every Flag parse_double_dash_flag yields and of every
\* Assignment parse_double_dash_assignment yields starts with a letter and
\* consists of lower-case letters, digits and single separators of one
\* kind, "-" or "_", the last character being no separator; and
\* parse_double_dash_flag yields nothing for an argument that holds "=".
C21_WellFormedNames ==
    \A i \in 1..Len(input_arguments) :
        LET a == input_arguments[i]
            flags == parse_double_dash_flag(a)
            assignments == parse_double_dash_assignment(a)
        IN /\ \A k \in 1..Len(flags) :
                 WellFormedWith(flags[k].name, "-") \/ WellFormedWith(flags[k].name, "_")
           /\ \A k \in 1..Len(assignments) :
                 \/ WellFormedWith(assignments[k].name, "-")
                 \/ WellFormedWith(assignments[k].name, "_")
           /\ In("=", a) => flags = <<>>

\* a Flag was yielded for a name of two separated words and a digit
C21_Witness ==
    /\ arguments # <<>>
    /\ arguments[1].type = "Flag"
    /\ arguments[1].name \in {<<"a", "-", "a", "-", "5">>, <<"a", "_", "a", "_", "5">>}

\* C22: no node of the graph, the root node and the node of a package
\* included, has a file_path that is itself a symbolic link.
C22_NoSymlinkFilePath ==
    \A i \in 1..Len(graph.nodes) : ~IsSymlink(graph.nodes[i].location.file_path)

\* C23: every segment of the import_path of every module node is a
\* non-empty name, also for a relative path and for a file whose chain of
\* packages ends right below the topmost directory.
C23_NonEmptySegments ==
    \A i \in 1..Len(graph.nodes) :
        graph.nodes[i].node_type = "python_module" =>
            /\ graph.nodes[i].location.import_path.parts # <<>>
            /\ \A k \in 1..Len(graph.nodes[i].location.import_path.parts) :
                  graph.nodes[i].location.import_path.parts[k] # EmptyStr

\* a module given by a relative path, its import_root the directory "."
\* that has no name; a module whose import_root is the topmost directory
C23_Witness ==
    /\ graph.nodes # <<>>
    /\ graph.nodes[1].node_type = "python_module"
    /\ \/ graph.nodes[1].location.import_root = RelPath(<<>>)
       \/ /\ graph.nodes[1].location.import_root = AbsPath(<<>>)
          /\ Len(graph.nodes[1].location.import_path.parts) >= 2

\* C24: the ancestor climb of node_from_module_path ends: a call that
\* entered the loop leaves it, also for a relative path and when the
\* topmost directory holds __init__.py.
C24_ClimbEnds == (pc = "climbing") ~> (pc # "climbing")

\* the places of the edges of a graph where index c stands as a child
ChildEntries(g, c) ==
    {e \in (DOMAIN g.edges) \X (1..Len(g.nodes)) :
        e[2] <= Len(g.edges[e[1]]) /\ g.edges[e[1]][e[2]] = c}

\* the indices reached from the indices in S along at most fuel edges
RECURSIVE ReachedFrom(_, _, _)
ReachedFrom(g, S, fuel) ==
    LET more == S \cup UNION {{g.edges[k][j] : j \in 1..Len(g.edges[k])} :
                                k \in S \cap DOMAIN g.edges}
    IN IF fuel = 0 \/ more = S THEN S ELSE ReachedFrom(g, more, fuel - 1)

\* C25: the edges of the graph, while it is built and when it is returned,
\* form a tree rooted at index 0: index 0 is no child, every other index
\* stands exactly once in the child lists, every edge leads from an index
\* to a greater one, and every index is reached from index 0.
C25_EdgesFormTree ==
    graph.nodes # <<>> =>
        /\ ChildEntries(graph, 0) = {}
        /\ \A c \in 1..(Len(graph.nodes) - 1) :
              Cardinality(ChildEntries(graph, c)) = 1
        /\ \A k \in DOMAIN graph.edges : \A j \in 1..Len(graph.edges[k]) :
              graph.edges[k][j] > k
        /\ ReachedFrom(graph, {0}, Len(graph.nodes)) = 0..(Len(graph.nodes) - 1)

\* a returned tree of depth two with a node of two children, over a
\* filesystem in which a link leads back to a directory above
C25_Witness ==
    /\ pc = "done"
    /\ \E k \in DOMAIN result[1].edges :
          /\ k > 0
          /\ Len(result[1].edges[k]) >= 2
    /\ \E e \in DOMAIN fs : fs[e].kind = "link"

\* the index under which index c stands as a child
ParentOf(g, c) ==
    CHOOSE k \in DOMAIN g.edges : \E j \in 1..Len(g.edges[k]) : g.edges[k][j] = c

\* the nodes child_nodes_from_node yields for a node, in whatever order
ChildNodeSet(node) ==
    {node_from_path(path).node :
        path \in {c \in EnumeratedPaths(node) : node_from_path(c).tag = "node"}}

\* C26: in a returned graph the parent of every node but the root is the
\* lowest index whose child enumeration holds a node equal to it, and of
\* two nodes the one with the lower index has the parent with the lower or
\* the same index.
C26_BreadthFirstOrder ==
    pc = "done" =>
        LET g == result[1]
            others == 1..(Len(g.nodes) - 1)
        IN /\ \A c \in others :
                 LET yielding == {k \in 0..(Len(g.nodes) - 1) :
                                     g.nodes[c + 1] \in ChildNodeSet(g.nodes[k + 1])}
                 IN /\ ParentOf(g, c) \in yielding
                    /\ \A k \in yielding : ParentOf(g, c) <= k
           /\ \A i, j \in others : i < j => ParentOf(g, i) <= ParentOf(g, j)

\* a returned graph with a node that two nodes enumerate, and with
\* children of two different parents
C26_Witness ==
    /\ pc = "done"
    /\ \E c \in 1..(Len(result[1].nodes) - 1) :
          Cardinality({k \in 0..(Len(result[1].nodes) - 1) :
              result[1].nodes[c + 1] \in ChildNodeSet(result[1].nodes[k + 1])}) >= 2
    /\ Cardinality(DOMAIN result[1].edges) >= 2

\* the cursor moves by one, from a node whose children were all processed
\* to the next node, and a node is expanded where the cursor stands
ExpandedOnceStep ==
    /\ index' # index => (pc = "children" /\ children = <<>> /\ index' = index + 1)
    /\ (pc = "children" /\ pc' = "loop") => index' = index + 1

\* C27: the cursor passes every index once, so every node is expanded
\* exactly once, and in a returned graph every node was expanded and
\* every node its child enumeration yields is equal to a node of the graph.
C27_ClosedUnderChildren ==
    /\ [][ExpandedOnceStep]_vars
    /\ [](pc = "done" =>
            /\ index = Len(result[1].nodes)
            /\ \A i \in 1..Len(result[1].nodes) :
                  \A c \in EnumeratedPaths(result[1].nodes[i]) :
                     /\ node_from_path(c).tag = "node"
                     /\ \E j \in 1..Len(result[1].nodes) :
                           result[1].nodes[j] = node_from_path(c).node)

\* a returned graph of three nodes or more in which a node enumerates a
\* node that stands before it
C27_Witness ==
    /\ pc = "done"
    /\ Len(result[1].nodes) >= 3
    /\ \E i \in 2..Len(result[1].nodes) :
          \E c \in EnumeratedPaths(result[1].nodes[i]) :
             \E j \in 1..(i - 1) : Returns(result[1].nodes[j]) = node_from_path(c)

\* what parse_arguments yields for an argument with the parsers in their
\* default order
DefaultArgument(a) ==
    LET yielding == {k \in 1..Len(DEFAULT_ARGUMENT_PARSERS) :
                        Apply(DEFAULT_ARGUMENT_PARSERS[k], a) # <<>>}
    IN IF yielding = {} THEN Value(a, a)
       ELSE Apply(DEFAULT_ARGUMENT_PARSERS[
                      CHOOSE k \in yielding : \A j \in yielding : k <= j], a)[1]

\* C28: for every argument at most one of the four default parsers yields
\* anything, and it yields one Argument; whatever the order of the parsers,
\* parse_arguments ends with the arguments the default order gives.
C28_MutuallyExclusive ==
    /\ \A i \in 1..Len(input_arguments) :
          /\ Cardinality({k \in 1..Len(DEFAULT_ARGUMENT_PARSERS) :
                 Apply(DEFAULT_ARGUMENT_PARSERS[k], input_arguments[i]) # <<>>}) <= 1
          /\ \A k \in 1..Len(DEFAULT_ARGUMENT_PARSERS) :
                 Len(Apply(DEFAULT_ARGUMENT_PARSERS[k], input_arguments[i])) <= 1
    /\ argument_index > Len(input_arguments) =>
          arguments = [i \in 1..Len(input_arguments) |->
                          DefaultArgument(input_arguments[i])]

\* with the single dash parsers tried first, a double dash assignment and
\* then a single dash flag were parsed
C28_Witness ==
    /\ parsers[1] = "parse_single_dash_flag"
    /\ parsers[2] = "parse_single_dash_assignment"
    /\ Len(input_arguments) = 2
    /\ argument_index = 3
    /\ arguments[1].type = "Assignment"
    /\ arguments[1].sentinel = <<"-", "-">>
    /\ arguments[2].type = "Flag"
    /\ arguments[2].sentinel = <<"-">>

====
